---- MODULE Spec2Model ----
(***************************************************************************)
(* Model of the CDSCO RAG notebook (CDSCO_RAG_with_Llama.ipynb):          *)
(*   - the document ingestion loop over pdf_links.csv       (SpecIngest)  *)
(*   - text_splitter.split_documents                        (SpecChunk)   *)
(*   - rag_chain / ollama_llm over retriever and ollama.chat (Spec)       *)
(* Python strings are sequences of one-character strings.                 *)
(***************************************************************************)
EXTENDS Integers, Sequences, FiniteSets, TLC

VARIABLES
    \* ---- query phase (rag_chain) ----
    vectorstore,        \* Documents held by the Chroma store, in insertion order
    pc,                 \* position of the current rag_chain call
    question,           \* argument of the current rag_chain call
    query_vector,       \* the query's embedding inside retriever.invoke
    retrieved_docs,     \* rag_chain local
    formatted_context,  \* rag_chain local
    formatted_prompt,   \* ollama_llm local
    sent,               \* prompts handed to ollama.chat during the current call
    provided,           \* content ollama.chat answered with in the current call
    result,             \* value rag_chain returned
    error,              \* exception that left rag_chain
    events,             \* provider-boundary events of the current call, in order
    embedMemo,          \* the embedding provider as a function, as far as observed
    searchMemo,         \* the store's similarity search as a function, as observed
    genMemo,            \* the generation provider as a function, as far as observed
    history,            \* <<question, returned string>> of every returned call
    calls,              \* rag_chain calls started
    deterministic,      \* whether the providers answer equal inputs equally
    \* ---- ingestion loop ----
    rows,               \* the PDF_URL column of pdf_links.csv, in file order
    i,                  \* enumerate index of the next row
    docs,               \* the collected Documents
    ipc,                \* "loop" while rows remain, then "done"
    log,                \* what happened to each row visited so far
    \* ---- text splitting ----
    text,               \* page_content of the Document being split
    chunk_size,         \* text_splitter._chunk_size
    chunk_overlap,      \* text_splitter._chunk_overlap
    splits,             \* the chunks, each with the offset it was cut at
    cpc                 \* "split" before split_documents, then "done"

ragVars == <<vectorstore, pc, question, query_vector, retrieved_docs,
             formatted_context, formatted_prompt, sent, provided, result,
             error, events,
             embedMemo, searchMemo, genMemo, history, calls, deterministic>>

ingestVars == <<rows, i, docs, ipc, log>>

chunkVars == <<text, chunk_size, chunk_overlap, splits, cpc>>

vars == <<ragVars, ingestVars, chunkVars>>

\* Python's None (an unbound local) where a string, an exception or a list of
\* Documents is expected.
None == <<"None">>
NoError == "NoError"
NoVector == "NoVector"
NoDocs == <<[page_content |-> <<"None">>, source |-> <<"None">>]>>

\* ------------------------------------------------------------------ bounds
MaxCalls == 2
MaxRetrieved == 2

\* ------------------------------------------------------------ small inputs
\* The store's content, the questions asked and what the providers answer are
\* inputs.  What the similarity search returns is left open: any list of
\* stored Documents, up to MaxRetrieved long.
Doc(content, src) == [page_content |-> content, source |-> src]

D1 == Doc(<<"x">>, <<"u", "r", "l", "_", "0">>)
D2 == Doc(<<"y", "z">>, <<"u", "r", "l", "_", "0">>)
D3 == Doc(<<"x">>, <<"u", "r", "l", "_", "1">>)

Stores == {<<>>, <<D1>>, <<D1, D2>>, <<D2, D1, D3>>}
Questions == {<<"q">>, <<"w", "?">>}
Vectors == {"v1", "v2"}
Contents == {<<"o">>, <<" ", "o", "\n">>}
EmbedErrors == {"requests.ConnectionError", "ValueError"}
ChatErrors == {"httpx.ConnectError", "ollama.ResponseError"}

RECURSIVE SeqsUpTo(_, _)
SeqsUpTo(S, n) ==
    IF n = 0 THEN {<<>>}
    ELSE LET shorter == SeqsUpTo(S, n - 1)
         IN  shorter \cup {Append(s, x) : s \in shorter, x \in S}

Range(s) == {s[k] : k \in DOMAIN s}

\* --------------------------------------------------------- pure functions
\* str.join
RECURSIVE JoinReversed(_, _)
JoinReversed(sep, strs) ==
    IF strs = <<>> THEN <<>>
    ELSE IF Len(strs) = 1 THEN strs[1]
    ELSE strs[Len(strs)] \o sep
         \o JoinReversed(sep, SubSeq(strs, 1, Len(strs) - 1))

RECURSIVE Join(_, _)
Join(sep, strs) ==
    IF strs = <<>> THEN <<>>
    ELSE IF Len(strs) = 1 THEN strs[1]
    ELSE strs[1] \o sep \o Join(sep, Tail(strs))

PageContents(ds) == [k \in DOMAIN ds |-> ds[k].page_content]

\* rag_chain: "\n\n".join(doc.page_content for doc in retrieved_docs)
FormatContext(ds) == Join(<<"\n", "\n">>, PageContents(ds))

QuestionLabel == <<"Q", "u", "e", "s", "t", "i", "o", "n", ":", " ">>
ContextLabel == <<"\n", "C", "o", "n", "t", "e", "x", "t", ":", " ">>
AnswerLabel == <<"\n", "A", "n", "s", "w", "e", "r", ":">>

\* ollama_llm: f"Question: {question}\nContext: {context}\nAnswer:"
FormatPrompt(q, context) ==
    QuestionLabel \o q \o ContextLabel \o context \o AnswerLabel

\* ollama_llm: return response['message']['content']
IsSpace(c) == c \in {" ", "\n", "\t"}

RECURSIVE LStrip(_)
LStrip(s) == IF s # <<>> /\ IsSpace(s[1]) THEN LStrip(Tail(s)) ELSE s

RECURSIVE RStrip(_)
RStrip(s) ==
    IF s # <<>> /\ IsSpace(s[Len(s)])
    THEN RStrip(SubSeq(s, 1, Len(s) - 1))
    ELSE s

Strip(s) == LStrip(RStrip(s))

OllamaLlmReturnStripped(content) == Strip(content)

OllamaLlmReturn(content) == content

\* ------------------------------------------------------------------- Init
IngestOff ==
    /\ rows = <<>>
    /\ i = 0
    /\ docs = <<>>
    /\ ipc = "off"
    /\ log = <<>>

ChunkOff ==
    /\ text = <<>>
    /\ chunk_size = 1
    /\ chunk_overlap = 0
    /\ splits = <<>>
    /\ cpc = "off"

Init ==
    /\ IngestOff
    /\ ChunkOff
    /\ vectorstore \in Stores
    /\ pc = "idle"
    /\ question = None
    /\ query_vector = NoVector
    /\ retrieved_docs = NoDocs
    /\ formatted_context = None
    /\ formatted_prompt = None
    /\ sent = <<>>
    /\ provided = None
    /\ result = None
    /\ error = NoError
    /\ events = <<>>
    /\ embedMemo = <<>>
    /\ searchMemo = <<>>
    /\ genMemo = <<>>
    /\ history = <<>>
    /\ calls = 0
    /\ deterministic \in BOOLEAN

Memo == <<embedMemo, searchMemo, genMemo, deterministic>>

\* What a provider can answer for input k: anything, unless it is deterministic
\* and has answered k before.
Outcomes(memo, k, all) ==
    IF deterministic /\ k \in DOMAIN memo THEN {memo[k]} ELSE all

\* The answers of a deterministic provider are kept, to be given again.
Remember(memo, k, v) ==
    IF deterministic /\ k \notin DOMAIN memo THEN memo @@ (k :> v) ELSE memo

\* ---------------------------------------------------------------- actions
\* rag_chain(question) is entered; retriever.invoke(question) starts by
\* asking the embedding provider for the query vector.
RagChain(q) ==
    /\ pc \in {"idle", "returned", "raised"}
    /\ calls < MaxCalls
    /\ calls' = calls + 1
    /\ pc' = "embed_query"
    /\ question' = q
    /\ query_vector' = NoVector
    /\ retrieved_docs' = NoDocs
    /\ formatted_context' = None
    /\ formatted_prompt' = None
    /\ sent' = <<>>
    /\ provided' = None
    /\ result' = None
    /\ error' = NoError
    /\ events' = <<"retrieve_start">>
    /\ UNCHANGED <<ingestVars, chunkVars, vectorstore, Memo, history>>

\* The embedding provider answers with the query vector.
EmbedQueryReturns(v) ==
    /\ pc = "embed_query"
    /\ v \in Outcomes(embedMemo, question, Vectors)
    /\ embedMemo' = Remember(embedMemo, question, v)
    /\ query_vector' = v
    /\ pc' = "search"
    /\ UNCHANGED <<ingestVars, chunkVars, vectorstore, question,
                   retrieved_docs, formatted_context, formatted_prompt, sent,
                   provided, result, error, events, searchMemo, genMemo,
                   history, calls, deterministic>>

\* Faulty variant: the failure is swallowed and the call goes on with no documents.
EmbedQueryRaisesSwallowed(e) ==
    /\ pc = "embed_query"
    /\ retrieved_docs' = <<>>
    /\ formatted_context' = FormatContext(<<>>)
    /\ formatted_prompt' = FormatPrompt(question, FormatContext(<<>>))
    /\ sent' = Append(sent, FormatPrompt(question, FormatContext(<<>>)))
    /\ events' = events
                  \o <<"embed_error", e, "retrieve_end", "generate_start">>
    /\ pc' = "chat"
    /\ UNCHANGED <<ingestVars, chunkVars, vectorstore, question, query_vector,
                   provided, result, error, Memo, history, calls>>

\* The embedding provider errors: the exception leaves retriever.invoke and,
\* rag_chain having no handler, rag_chain.
EmbedQueryRaises(e) ==
    /\ pc = "embed_query"
    /\ pc' = "raised"
    /\ error' = e
    /\ events' = events \o <<"embed_error", e>>
    /\ UNCHANGED <<ingestVars, chunkVars, vectorstore, question, query_vector,
                   retrieved_docs, formatted_context, formatted_prompt, sent,
                   provided, result, Memo, history, calls>>

\* Faulty variant: an empty retrieval is answered without asking the model.
SearchReturnsNoModelOnEmpty(r) ==
    /\ pc = "search"
    /\ searchMemo' = Remember(searchMemo, query_vector, r)
    /\ retrieved_docs' = r
    /\ formatted_context' = FormatContext(r)
    /\ formatted_prompt' = FormatPrompt(question, FormatContext(r))
    /\ IF r = <<>>
       THEN /\ pc' = "returned"
            /\ result' = <<>>
            /\ sent' = sent
            /\ events' = Append(events, "retrieve_end")
            /\ history' = Append(history, <<question, <<>>>>)
       ELSE /\ pc' = "chat"
            /\ result' = result
            /\ sent' = Append(sent, FormatPrompt(question, FormatContext(r)))
            /\ events' = events \o <<"retrieve_end", "generate_start">>
            /\ history' = history
    /\ UNCHANGED <<ingestVars, chunkVars, vectorstore, question, query_vector,
                   provided, error, embedMemo, genMemo, calls, deterministic>>

\* Faulty variant: the query is remembered in the store.
SearchReturnsStoresQuery(r) ==
    /\ pc = "search"
    /\ searchMemo' = Remember(searchMemo, query_vector, r)
    /\ retrieved_docs' = r
    /\ formatted_context' = FormatContext(r)
    /\ formatted_prompt' = FormatPrompt(question, FormatContext(r))
    /\ sent' = Append(sent, FormatPrompt(question, FormatContext(r)))
    /\ events' = events \o <<"retrieve_end", "generate_start">>
    /\ pc' = "chat"
    /\ vectorstore' = Append(vectorstore, Doc(question, <<"q">>))
    /\ UNCHANGED <<ingestVars, chunkVars, question, query_vector, provided,
                   result, error, embedMemo, genMemo, history, calls,
                   deterministic>>

\* The store's similarity search answers and retriever.invoke returns; rag_chain
\* joins the page contents, ollama_llm formats the prompt and calls ollama.chat.
SearchReturns(r) ==
    /\ pc = "search"
    /\ searchMemo' = Remember(searchMemo, query_vector, r)
    /\ retrieved_docs' = r
    /\ formatted_context' = FormatContext(r)
    /\ formatted_prompt' = FormatPrompt(question, FormatContext(r))
    /\ sent' = Append(sent, FormatPrompt(question, FormatContext(r)))
    /\ events' = events \o <<"retrieve_end", "generate_start">>
    /\ pc' = "chat"
    /\ UNCHANGED <<ingestVars, chunkVars, vectorstore, question, query_vector,
                   provided, result, error, embedMemo, genMemo, history, calls,
                   deterministic>>

\* ollama.chat answers; ollama_llm returns the message content and rag_chain
\* returns what ollama_llm returned.
ChatReturns(content) ==
    /\ pc = "chat"
    /\ genMemo' = Remember(genMemo, formatted_prompt, content)
    /\ provided' = content
    /\ result' = OllamaLlmReturn(content)
    /\ history' = Append(history, <<question, OllamaLlmReturn(content)>>)
    /\ events' = Append(events, "generate_end")
    /\ pc' = "returned"
    /\ UNCHANGED <<ingestVars, chunkVars, vectorstore, question, query_vector,
                   retrieved_docs, formatted_context, formatted_prompt, sent,
                   error, embedMemo, searchMemo, calls, deterministic>>

\* Faulty variant: the call is tried again after a failure.
ChatRaisesRetried(e) ==
    /\ pc = "chat"
    /\ Len(sent) < 2
    /\ sent' = Append(sent, formatted_prompt)
    /\ events' = events \o <<"generate_error", e, "generate_start">>
    /\ UNCHANGED <<ingestVars, chunkVars, vectorstore, pc, question,
                   query_vector, retrieved_docs, formatted_context,
                   formatted_prompt, provided, result, error, Memo, history,
                   calls>>

\* ollama.chat raises: the exception leaves ollama_llm and rag_chain, neither
\* having a handler.
ChatRaises(e) ==
    /\ pc = "chat"
    /\ pc' = "raised"
    /\ error' = e
    /\ events' = events \o <<"generate_error", e>>
    /\ UNCHANGED <<ingestVars, chunkVars, vectorstore, question, query_vector,
                   retrieved_docs, formatted_context, formatted_prompt, sent,
                   provided, result, Memo, history, calls>>

Next ==
    \/ \E q \in Questions : RagChain(q)
    \/ \E v \in Vectors : EmbedQueryReturns(v)
    \/ \E e \in EmbedErrors : EmbedQueryRaises(e)
    \/ /\ pc = "search"
       /\ \E r \in Outcomes(searchMemo, query_vector,
                            SeqsUpTo(Range(vectorstore), MaxRetrieved)) :
              SearchReturns(r)
    \/ /\ pc = "chat"
       /\ \E c \in Outcomes(genMemo, formatted_prompt, Contents) :
              ChatReturns(c)
    \/ \E e \in ChatErrors : ChatRaises(e)

Spec == Init /\ [][Next]_vars

\* ===================================================== ingestion loop
MaxRows == 3

Urls == {"jsp_a", "jsp_b"}
PdfTexts == {<<>>, <<"t">>}
\* How one pass through the loop body can end.
Skips == {"no_iframe", "not_pdf"}
Raises == {"get_raises", "pdf_get_raises", "fitz_raises"}

Digit(d) == <<"0", "1", "2", "3", "4", "5", "6", "7", "8", "9">>[d + 1]

\* str(n) of a non-negative int, as the f-string formats it
RECURSIVE Str(_)
Str(n) == IF n < 10 THEN <<Digit(n)>> ELSE Str(n \div 10) \o <<Digit(n % 10)>>

\* metadata={"source": f"url_{i}"}
SourceOf(n) == <<"u", "r", "l", "_">> \o Str(n)

RagOff ==
    /\ pc = "off"
    /\ vectorstore = <<>>
    /\ question = None
    /\ query_vector = NoVector
    /\ retrieved_docs = NoDocs
    /\ formatted_context = None
    /\ formatted_prompt = None
    /\ sent = <<>>
    /\ provided = None
    /\ result = None
    /\ error = NoError
    /\ events = <<>>
    /\ embedMemo = <<>>
    /\ searchMemo = <<>>
    /\ genMemo = <<>>
    /\ history = <<>>
    /\ calls = 0
    /\ deterministic = TRUE

IngestInit ==
    /\ RagOff
    /\ ChunkOff
    /\ rows \in SeqsUpTo(Urls, MaxRows)
    /\ i = 0
    /\ docs = <<>>
    /\ ipc = "loop"
    /\ log = <<>>

\* enumerate(reader) hands out the next row, or the loop ends.
Advance == IF i + 1 < Len(rows) THEN "loop" ELSE "done"

\* The PDF is fetched and parsed: its text is appended as a Document.
RowSucceeds(pdf_text) ==
    /\ ipc = "loop"
    /\ i < Len(rows)
    /\ docs' = Append(docs, Doc(pdf_text, SourceOf(i)))
    /\ log' = Append(log, [url |-> rows[i + 1], outcome |-> "ok",
                           content |-> pdf_text])
    /\ i' = i + 1
    /\ ipc' = Advance
    /\ UNCHANGED <<ragVars, chunkVars, rows>>

\* No iframe with a src, or the body does not start with %PDF: nothing is done.
RowSkipped(why) ==
    /\ ipc = "loop"
    /\ i < Len(rows)
    /\ log' = Append(log, [url |-> rows[i + 1], outcome |-> why,
                           content |-> <<>>])
    /\ i' = i + 1
    /\ ipc' = Advance
    /\ UNCHANGED <<ragVars, chunkVars, rows, docs>>

\* Faulty variant: the exception is not handled inside the loop and ends it.
RowRaisesEndsLoop(why) ==
    /\ ipc = "loop"
    /\ i < Len(rows)
    /\ log' = Append(log, [url |-> rows[i + 1], outcome |-> why,
                           content |-> <<>>])
    /\ i' = i + 1
    /\ ipc' = "done"
    /\ UNCHANGED <<ragVars, chunkVars, rows, docs>>

\* requests.get or fitz raises: the except clause prints and the loop goes on.
RowRaises(why) ==
    /\ ipc = "loop"
    /\ i < Len(rows)
    /\ log' = Append(log, [url |-> rows[i + 1], outcome |-> why,
                           content |-> <<>>])
    /\ i' = i + 1
    /\ ipc' = Advance
    /\ UNCHANGED <<ragVars, chunkVars, rows, docs>>

\* The csv reader is exhausted at once: the file lists no URL.
NoRows ==
    /\ ipc = "loop"
    /\ Len(rows) = 0
    /\ ipc' = "done"
    /\ UNCHANGED <<ragVars, chunkVars, rows, i, docs, log>>

IngestNext ==
    \/ \E t \in PdfTexts : RowSucceeds(t)
    \/ \E w \in Skips : RowSkipped(w)
    \/ \E w \in Raises : RowRaises(w)
    \/ NoRows

\* The loop is straight-line code whose requests carry timeouts: it keeps going.
SpecIngest == IngestInit /\ [][IngestNext]_vars /\ WF_vars(IngestNext)

\* Positions (1-based) of the rows visited so far that yielded a Document.
OkRows == {k \in DOMAIN log : log[k].outcome = "ok"}

\* The position of the n-th successful row.
NthOk(n) ==
    CHOOSE k \in OkRows : Cardinality({m \in OkRows : m <= k}) = n

\* C10: the loop visits every row once, in file order, whatever happens to
\* each; docs holds exactly the successful rows, in order, labelled url_<i>
\* with i the row's position; a failed or skipped row leaves docs as it was;
\* and the loop terminates.
C10_Collected ==
    /\ i = Len(log)
    /\ i <= Len(rows)
    /\ \A k \in DOMAIN log : log[k].url = rows[k]
    /\ Len(docs) = Cardinality(OkRows)
    /\ \A n \in DOMAIN docs :
           /\ docs[n].page_content = log[NthOk(n)].content
           /\ docs[n].source = <<"u", "r", "l", "_">> \o Str(NthOk(n) - 1)
    /\ ipc = "done" => i = Len(rows)

C10_SkipAndContinue ==
    /\ []C10_Collected
    /\ [][/\ Len(docs') >= Len(docs)
          /\ SubSeq(docs', 1, Len(docs)) = docs
          /\ (log' # log /\ log'[Len(log')].outcome # "ok") => docs' = docs]_vars
    /\ <>(ipc = "done")

C10_Witness ==
    /\ ipc = "done"
    /\ Len(rows) = 3
    /\ log[1].outcome = "get_raises"
    /\ log[2].outcome = "ok"
    /\ log[3].outcome = "not_pdf"
    /\ docs = <<Doc(<<"t">>, <<"u", "r", "l", "_", "1">>)>>

\* ====================================================== text splitting
\* RecursiveCharacterTextSplitter(chunk_size, chunk_overlap).split_documents,
\* with the class defaults: separators ["\n\n", "\n", " ", ""], keep_separator,
\* strip_whitespace, length_function len.  Every piece of text carries the
\* offset it starts at in the Document's page_content.
MaxTextLen == 6
MaxChunkSize == 4

Alphabet == {"a", " ", "\n"}
Separators == << <<"\n", "\n">>, <<"\n">>, <<" ">>, <<>> >>

Piece(at, s) == [at |-> at, s |-> s]

Strings(ps) == [k \in DOMAIN ps |-> ps[k].s]

\* re.search(re.escape(sep), s) for a non-empty literal sep
Contains(s, sep) ==
    \E p \in 1..(Len(s) - Len(sep) + 1) : SubSeq(s, p, p + Len(sep) - 1) = sep

\* Where re.split finds sep, left to right, matches not overlapping.
RECURSIVE MatchStarts(_, _, _)
MatchStarts(s, sep, pos) ==
    IF pos + Len(sep) - 1 > Len(s) THEN <<>>
    ELSE IF SubSeq(s, pos, pos + Len(sep) - 1) = sep
         THEN <<pos>> \o MatchStarts(s, sep, pos + Len(sep))
         ELSE MatchStarts(s, sep, pos + 1)

\* _split_text_with_regex(text, separator, keep_separator=True): each separator
\* stays at the start of the piece that follows it; empty pieces are dropped.
SplitTextWithRegex(p, sep) ==
    IF sep = <<>>
    THEN [k \in 1..Len(p.s) |-> Piece(p.at + k - 1, <<p.s[k]>>)]
    ELSE LET cuts == <<1>> \o MatchStarts(p.s, sep, 1) \o <<Len(p.s) + 1>>
             raw == [k \in 1..(Len(cuts) - 1) |->
                        Piece(p.at + cuts[k] - 1,
                              SubSeq(p.s, cuts[k], cuts[k + 1] - 1))]
             NonEmpty(x) == x.s # <<>>
         IN  SelectSeq(raw, NonEmpty)

\* _join_docs: separator.join(docs), stripped; None (here: no chunk) when empty.
JoinDocs(current_doc, separator) ==
    LET joined == Join(separator, Strings(current_doc))
        lead == Len(joined) - Len(LStrip(joined))
    IN  IF Strip(joined) = <<>> THEN <<>>
        ELSE <<Piece(current_doc[1].at + lead, Strip(joined))>>

SepLenIf(cond, separator) == IF cond THEN Len(separator) ELSE 0

\* Faulty variant: the overlap limit is not looked at when dropping pieces.
KeepPoppingNoOverlapLimit(current_doc, total, len, separator) ==
    /\ total + len + SepLenIf(Len(current_doc) > 0, separator) > chunk_size
    /\ total > 0

\* _merge_splits: the condition of the inner while loop
KeepPopping(current_doc, total, len, separator) ==
    \/ total > chunk_overlap
    \/ /\ total + len + SepLenIf(Len(current_doc) > 0, separator) > chunk_size
       /\ total > 0

\* _merge_splits: the inner while loop
RECURSIVE PopFront(_, _, _, _)
PopFront(current_doc, total, len, separator) ==
    IF KeepPopping(current_doc, total, len, separator)
    THEN PopFront(Tail(current_doc),
                  total - (Len(current_doc[1].s)
                           + SepLenIf(Len(current_doc) > 1, separator)),
                  len, separator)
    ELSE [current_doc |-> current_doc, total |-> total]

\* _merge_splits: the for loop over the splits, from the k-th on
RECURSIVE MergeLoop(_, _, _, _, _, _)
MergeLoop(sp, k, out, current_doc, total, separator) ==
    IF k > Len(sp) THEN out \o JoinDocs(current_doc, separator)
    ELSE LET d == sp[k]
             len == Len(d.s)
             emit == /\ total + len
                          + SepLenIf(Len(current_doc) > 0, separator) > chunk_size
                     /\ Len(current_doc) > 0
             out1 == IF emit THEN out \o JoinDocs(current_doc, separator) ELSE out
             kept == IF emit THEN PopFront(current_doc, total, len, separator)
                     ELSE [current_doc |-> current_doc, total |-> total]
             doc2 == Append(kept.current_doc, d)
             total2 == kept.total + len + SepLenIf(Len(doc2) > 1, separator)
         IN  MergeLoop(sp, k + 1, out1, doc2, total2, separator)

MergeSplits(sp, separator) == MergeLoop(sp, 1, <<>>, <<>>, 0, separator)

\* _split_text: the first separator that is "" or occurs in the text
\* (0: none does, and the last one is used).
RECURSIVE PickSeparator(_, _, _)
PickSeparator(s, separators, k) ==
    IF k > Len(separators) THEN 0
    ELSE IF separators[k] = <<>> THEN k
    ELSE IF Contains(s, separators[k]) THEN k
    ELSE PickSeparator(s, separators, k + 1)

RECURSIVE SplitText(_, _)
RECURSIVE SplitLoop(_, _, _, _, _)

\* _split_text: the loop over the splits, from the k-th on; with keep_separator
\* the pieces are merged with the separator "".
SplitLoop(sp, k, final_chunks, good_splits, new_separators) ==
    IF k > Len(sp)
    THEN IF good_splits # <<>>
         THEN final_chunks \o MergeSplits(good_splits, <<>>)
         ELSE final_chunks
    ELSE IF Len(sp[k].s) < chunk_size
    THEN SplitLoop(sp, k + 1, final_chunks, Append(good_splits, sp[k]),
                   new_separators)
    ELSE LET flushed == IF good_splits # <<>>
                        THEN final_chunks \o MergeSplits(good_splits, <<>>)
                        ELSE final_chunks
             more == IF new_separators = <<>> THEN <<sp[k]>>
                     ELSE SplitText(sp[k], new_separators)
         IN  SplitLoop(sp, k + 1, flushed \o more, <<>>, new_separators)

\* RecursiveCharacterTextSplitter._split_text(text, separators)
SplitText(p, separators) ==
    LET picked == PickSeparator(p.s, separators, 1)
        separator == IF picked = 0 THEN separators[Len(separators)]
                     ELSE separators[picked]
        new_separators ==
            IF picked = 0 \/ separator = <<>> THEN <<>>
            ELSE SubSeq(separators, picked + 1, Len(separators))
    IN  SplitLoop(SplitTextWithRegex(p, separator), 1, <<>>, <<>>,
                  new_separators)

ChunkInit ==
    /\ RagOff
    /\ IngestOff
    /\ text \in SeqsUpTo(Alphabet, MaxTextLen)
    /\ chunk_size \in 1..MaxChunkSize
    /\ chunk_overlap \in 0..(chunk_size - 1)
    /\ splits = <<>>
    /\ cpc = "split"

\* splits = text_splitter.split_documents(docs), for one Document
SplitDocuments ==
    /\ cpc = "split"
    /\ splits' = SplitText(Piece(0, text), Separators)
    /\ cpc' = "done"
    /\ UNCHANGED <<ragVars, ingestVars, text, chunk_size, chunk_overlap>>

ChunkNext == SplitDocuments

SpecChunk == ChunkInit /\ [][ChunkNext]_vars

\* Offsets (0-based) the k-th chunk covers, and what it shares with the next.
StartOf(k) == splits[k].at

EndOf(k) == splits[k].at + Len(splits[k].s)

Covered(o) == \E k \in DOMAIN splits : StartOf(k) <= o /\ o < EndOf(k)

Shared(k) == EndOf(k) - StartOf(k + 1)

\* C8 as stated: the chunks cover every character offset of the text and
\* consecutive chunks share exactly chunk_overlap characters.
C8_CoverAllExactOverlap ==
    cpc = "done" =>
        /\ \A o \in 0..(Len(text) - 1) : Covered(o)
        /\ \A k \in 1..(Len(splits) - 1) : Shared(k) = chunk_overlap

\* C8 amended: every chunk is a slice of the text; the chunks cover every
\* character offset that holds a non-whitespace character; consecutive
\* chunks share at most chunk_overlap characters.
C8_CoverNonSpaceAtMostOverlap ==
    cpc = "done" =>
        /\ \A k \in DOMAIN splits :
               /\ splits[k].s # <<>>
               /\ SubSeq(text, StartOf(k) + 1, EndOf(k)) = splits[k].s
        /\ \A o \in 0..(Len(text) - 1) : ~IsSpace(text[o + 1]) => Covered(o)
        /\ \A k \in 1..(Len(splits) - 1) : Shared(k) <= chunk_overlap

C8_Witness ==
    /\ cpc = "done"
    /\ text = <<"a", "a", " ", "a", "a", "a">>
    /\ chunk_size = 3
    /\ chunk_overlap = 1
    /\ Len(splits) >= 2
    /\ ~Covered(2)

\* ----------------------------------------------------------------- claims
Occurs(ev) == \E k \in DOMAIN events : events[k] = ev

Count(ev) == Cardinality({k \in DOMAIN events : events[k] = ev})

\* C1: in every rag_chain call the retrieval has completed before ollama.chat
\* is called, ollama.chat is called exactly once with the prompt built from
\* that retrieval's result, and rag_chain returns the provider's content
\* unmodified.
C1_RetrieveThenGenerateOnce ==
    /\ \A k \in DOMAIN events :
           events[k] = "generate_start" =>
               \E j \in 1..(k - 1) : events[j] = "retrieve_end"
    /\ Len(sent) > 0 =>
           /\ retrieved_docs # NoDocs
           /\ query_vector \in Vectors
           /\ sent[1] = FormatPrompt(question, FormatContext(retrieved_docs))
    /\ pc = "returned" =>
           /\ Len(sent) = 1
           /\ Count("generate_start") = 1
           /\ provided \in Contents
           /\ result = provided

C1_Witness ==
    /\ pc = "returned"
    /\ retrieved_docs = <<D1, D2>>
    /\ result = <<" ", "o", "\n">>

\* Start offset (0-based) of the k-th text inside the joined context.
RECURSIVE OffsetOf(_, _)
OffsetOf(texts, k) ==
    IF k = 1 THEN 0 ELSE OffsetOf(texts, k - 1) + Len(texts[k - 1]) + 2

\* C2: the context handed to the provider is the retrieved page contents in
\* result order separated by a blank line, and the prompt is
\* "Question: <question>\nContext: <context>\nAnswer:".
C2_ContextInResultOrder ==
    Len(sent) > 0 =>
        LET texts == PageContents(retrieved_docs)
            n == Len(texts)
            ctx == formatted_context
            prompt == sent[1]
            lq == Len(question)
            lc == Len(ctx)
        IN  /\ Len(ctx) = IF n = 0 THEN 0 ELSE OffsetOf(texts, n) + Len(texts[n])
            /\ \A k \in 1..n :
                   SubSeq(ctx, OffsetOf(texts, k) + 1,
                          OffsetOf(texts, k) + Len(texts[k])) = texts[k]
            /\ \A k \in 1..(n - 1) :
                   /\ OffsetOf(texts, k) < OffsetOf(texts, k + 1)
                   /\ SubSeq(ctx, OffsetOf(texts, k + 1) - 1,
                             OffsetOf(texts, k + 1)) = <<"\n", "\n">>
            /\ Len(prompt) = 10 + lq + 10 + lc + 8
            /\ SubSeq(prompt, 1, 10)
                   = <<"Q", "u", "e", "s", "t", "i", "o", "n", ":", " ">>
            /\ SubSeq(prompt, 11, 10 + lq) = question
            /\ SubSeq(prompt, 11 + lq, 20 + lq)
                   = <<"\n", "C", "o", "n", "t", "e", "x", "t", ":", " ">>
            /\ SubSeq(prompt, 21 + lq, 20 + lq + lc) = ctx
            /\ SubSeq(prompt, 21 + lq + lc, 28 + lq + lc)
                   = <<"\n", "A", "n", "s", "w", "e", "r", ":">>

C2_Witness ==
    /\ pc = "chat"
    /\ retrieved_docs = <<D2, D1>>
    /\ formatted_context = <<"y", "z", "\n", "\n", "x">>

\* C3: when the retrieval returns no documents, rag_chain still calls
\* ollama.chat, with an empty context, and returns the provider's content.
C3_EmptyRetrievalStillGenerates ==
    retrieved_docs = <<>> =>
        /\ pc \in {"chat", "returned", "raised"}
        /\ formatted_context = <<>>
        /\ Len(sent) = 1
        /\ sent[1] = <<"Q", "u", "e", "s", "t", "i", "o", "n", ":", " ">>
                     \o question
                     \o <<"\n", "C", "o", "n", "t", "e", "x", "t", ":", " ">>
                     \o <<"\n", "A", "n", "s", "w", "e", "r", ":">>
        /\ pc = "raised" => error \in ChatErrors
        /\ pc = "returned" =>
               /\ Occurs("generate_end")
               /\ provided \in Contents
               /\ result = provided

C3_Witness ==
    /\ vectorstore = <<>>
    /\ retrieved_docs = <<>>
    /\ pc = "returned"
    /\ result \in Contents

\* C4: when ollama.chat fails, rag_chain fails with the provider's error:
\* the provider was called once, never again, and nothing is returned.
C4_GenerationFailurePropagates ==
    /\ Len(sent) <= 1
    /\ Occurs("generate_error") =>
           /\ pc = "raised"
           /\ error \in ChatErrors
           /\ error = events[Len(events)]
           /\ Count("generate_start") = 1
           /\ Len(sent) = 1
           /\ result = None
           /\ provided = None

C4_Witness ==
    /\ pc = "raised"
    /\ error = "ollama.ResponseError"
    /\ Len(sent) = 1

\* C5: when the embedding provider fails on the query, its error leaves
\* retriever.invoke and rag_chain unchanged, and ollama.chat is never called.
C5_EmbeddingFailurePropagates ==
    Occurs("embed_error") =>
        /\ pc = "raised"
        /\ error \in EmbedErrors
        /\ error = events[Len(events)]
        /\ sent = <<>>
        /\ ~Occurs("generate_start")
        /\ retrieved_docs = NoDocs
        /\ result = None

C5_Witness ==
    /\ pc = "raised"
    /\ error = "requests.ConnectionError"
    /\ calls = 2

\* C9: no rag_chain step changes the store, and, with deterministic
\* providers, any two returned calls with the same question (the store being
\* the same) returned the same string.
C9_StatelessIdempotent ==
    /\ [][vectorstore' = vectorstore]_vars
    /\ [](deterministic =>
             \A k, j \in DOMAIN history :
                 history[k][1] = history[j][1] => history[k][2] = history[j][2])

C9_Witness ==
    /\ deterministic
    /\ Len(history) = 2
    /\ history[1][1] = history[2][1]
    /\ history[1][2] = <<" ", "o", "\n">>
    /\ vectorstore # <<>>

====
